---- MODULE Spec2Model ----
(***************************************************************************)
(* The debate orchestration of app.py: the shared session record           *)
(* debate_state, the handlers start_debate, stop_debate and reset_debate,  *)
(* and the driving loop of start_debate, a generator whose invocations run *)
(* concurrently with the other handlers on the same session record.        *)
(* A step of an invocation runs from one point where it waits (a yield, a  *)
(* request to the generation service, the next line of the stream) to the  *)
(* next one.                                                               *)
(***************************************************************************)
EXTENDS Integers, Sequences, FiniteSets, TLC

(* ------------------------------- bounds -------------------------------- *)

\* start_debate invocations that can be alive at the same time
NumLoops == 2
\* entries a conversation list can hold, and the count a loop can reach,
\* before the model stops issuing generation calls
MaxTurns == 2
\* fragments one streamed response can hold
MaxFrags == 2
\* entries of the histories, and the largest memory_size, that the memory of
\* an agent is built for in SpecMemory
MaxEntries == 3
MaxBudget == 31

(* --------------------------- program constants ------------------------- *)

\* while message_count < 1000
MessageLimit == 1000
\* the value None of 'current_agent_index'
None == -1

\* text fragments the generation service can stream
Fragments == {"a "}

\* agents[i]['name'], for agent1_name_text = "Ann" and agent2_name_text = "Bob"
AgentName(i) == IF i = 0 THEN "Ann" ELSE "Bob"
\* role = 'user' if current_agent_index == 0 else 'assistant'
Role(i) == IF i = 0 THEN "user" ELSE "assistant"

ErrorSentinel == "Error generating response."
StatusStarted == "Debate started."
StatusStopped == "Debate stopped."
StatusLimit == "Debate ended after reaching message limit."
StatusTyping(i) == AgentName(i) \o " is typing..."
StatusError(i) == AgentName(i) \o " encountered an error."
StatusFinished(i) == AgentName(i) \o " finished responding."

\* str.strip() over the characters the model streams
RECURSIVE LStrip(_)
LStrip(s) ==
    IF Len(s) > 0 /\ SubSeq(s, 1, 1) = " " THEN LStrip(SubSeq(s, 2, Len(s))) ELSE s
RECURSIVE RStrip(_)
RStrip(s) ==
    IF Len(s) > 0 /\ SubSeq(s, Len(s), Len(s)) = " "
    THEN RStrip(SubSeq(s, 1, Len(s) - 1)) ELSE s
Strip(s) == RStrip(LStrip(s))

\* agents[i]['memory_size'], from the sliders agent1_memory_size and
\* agent2_memory_size, set at their minimum of 100
MinMemorySize == 100
MemorySizes == <<MinMemorySize, MinMemorySize>>

\* msg_text = f"{msg['name']}: {msg['content']}\n"
Format(msg) == msg.name \o ": " \o msg.content \o "\n"

\* the loop over reversed(conversation) that builds memory_text, at the
\* entry k, with length memory_length counted so far
RECURSIVE MemoryLoop(_, _, _, _, _)
MemoryLoop(conv, k, memory_size, memory_length, memory_text) ==
    IF k = 0
    THEN memory_text
    ELSE LET msg_text == Format(conv[k])
             length == memory_length + Len(msg_text)
         IN  IF length > memory_size
             THEN memory_text
             ELSE MemoryLoop(conv, k - 1, memory_size, length, msg_text \o memory_text)

\* the loop with the test of the length before the length is counted: the
\* entry that passes the size is kept
RECURSIVE MemoryLoop_late_break(_, _, _, _, _)
MemoryLoop_late_break(conv, k, memory_size, memory_length, memory_text) ==
    IF k = 0 \/ memory_length > memory_size
    THEN memory_text
    ELSE LET msg_text == Format(conv[k])
         IN  MemoryLoop_late_break(conv, k - 1, memory_size,
                                   memory_length + Len(msg_text), msg_text \o memory_text)

MemoryText_late_break(conv, memory_size) ==
    MemoryLoop_late_break(conv, Len(conv), memory_size, 0, "")

\* memory_text for a conversation and the memory_size of the agent
MemoryText(conv, memory_size) == MemoryLoop(conv, Len(conv), memory_size, 0, "")

(* -------------------------------- state -------------------------------- *)

VARIABLES
    debate_state,   \* the gr.State dict, but for the two lists it refers to
    heap,           \* the list pairs [conversation, chat_history] something
                    \* refers to, oldest first; debate_state holds the last
    gens,           \* the start_debate invocations alive, oldest first:
                    \* position, locals and the place in heap of their lists
    last,           \* how the start call that was the last step ended, or "step"
    initial_index   \* the index the first start since the last reset began with

vars == <<debate_state, heap, gens, last, initial_index>>

EmptyLists == [conversation |-> <<>>, chat_history |-> <<>>]

\* debate_state['conversation'] and debate_state['chat_history']
conversation == heap[Len(heap)].conversation
chat_history == heap[Len(heap)].chat_history

Loops == DOMAIN gens

\* a generation call is in flight: requested, or its stream is being read
InFlight(l) == gens[l].pc \in {"gen", "stream"}

\* the list pairs still referred to, in their order, and the invocations
\* with their references moved accordingly
Kept(h, gs) == {i \in 1..Len(h) : i = Len(h) \/ \E l \in DOMAIN gs : gs[l].lists = i}
Rank(h, gs, i) == Cardinality({j \in Kept(h, gs) : j <= i})
CollectHeap(h, gs) ==
    [k \in 1..Cardinality(Kept(h, gs)) |->
        h[CHOOSE i \in Kept(h, gs) : Rank(h, gs, i) = k]]
CollectGens(h, gs) ==
    [l \in DOMAIN gs |-> [gs[l] EXCEPT !.lists = Rank(h, gs, @)]]

\* the invocations but the one that returned or raised
Without(gs, l) == SubSeq(gs, 1, l - 1) \o SubSeq(gs, l + 1, Len(gs))

\* gr.State({'running': False, 'conversation': [], 'chat_history': [],
\*           'message_count': 0, 'current_agent_index': None})
Init ==
    /\ debate_state = [running |-> FALSE, message_count |-> 0,
                       current_agent_index |-> None]
    /\ heap = <<EmptyLists>>
    /\ gens = <<>>
    /\ last = "init"
    /\ initial_index = None

(* ------------------------------ handlers ------------------------------- *)

\* start_debate without its guard on debate_state['running']
start_debate_unguarded ==
    \E connected \in BOOLEAN :
        IF ~connected
        THEN /\ last' = "no_connection"
             /\ UNCHANGED <<debate_state, heap, gens, initial_index>>
        ELSE /\ Len(gens) < NumLoops
             /\ \E r \in {0, 1} :
                 LET drawn == debate_state.current_agent_index = None
                     idx == IF drawn THEN r ELSE debate_state.current_agent_index
                 IN  /\ debate_state' = [debate_state EXCEPT
                            !.running = TRUE, !.current_agent_index = idx]
                     /\ gens' = Append(gens,
                            [pc |-> "while",
                             message_count |-> debate_state.message_count,
                             current_agent_index |-> idx,
                             lists |-> Len(heap),
                             full_response |-> "",
                             status_text |-> StatusStarted,
                             memory_size |-> MemorySizes,
                             memory_text |-> ""])
                     /\ initial_index' = IF initial_index = None THEN idx ELSE initial_index
             /\ last' = "step"
             /\ UNCHANGED heap

\* start_debate with the first speaker drawn before the connectivity probe
start_debate_draws_before_probe ==
    IF debate_state.running
    THEN /\ last' = "start_ignored"
         /\ UNCHANGED <<debate_state, heap, gens, initial_index>>
    ELSE \E connected \in BOOLEAN, r \in {0, 1} :
         LET drawn == debate_state.current_agent_index = None
             idx == IF drawn THEN r ELSE debate_state.current_agent_index
         IN  IF ~connected
             THEN /\ last' = "no_connection"
                  /\ debate_state' = [debate_state EXCEPT !.current_agent_index = idx]
                  /\ UNCHANGED <<heap, gens, initial_index>>
             ELSE /\ Len(gens) < NumLoops
                  /\ debate_state' = [debate_state EXCEPT
                         !.running = TRUE, !.current_agent_index = idx]
                  /\ gens' = Append(gens,
                         [pc |-> "while",
                          message_count |-> debate_state.message_count,
                          current_agent_index |-> idx,
                          lists |-> Len(heap),
                          full_response |-> "",
                          status_text |-> StatusStarted,
                          memory_size |-> MemorySizes,
                          memory_text |-> ""])
                  /\ initial_index' = IF initial_index = None THEN idx ELSE initial_index
                  /\ last' = "step"
                  /\ UNCHANGED heap

\* start_debate up to its first yield: the guard on debate_state['running'],
\* the connectivity probe, then the locals are read from debate_state, the
\* first speaker is drawn when none is stored, running is set and
\* "Debate started." is yielded
start_debate ==
    IF debate_state.running
    THEN /\ last' = "start_ignored"
         /\ UNCHANGED <<debate_state, heap, gens, initial_index>>
    ELSE \E connected \in BOOLEAN :
         IF ~connected
         THEN /\ last' = "no_connection"
              /\ UNCHANGED <<debate_state, heap, gens, initial_index>>
         ELSE /\ Len(gens) < NumLoops
              /\ \E r \in {0, 1} :
                  LET drawn == debate_state.current_agent_index = None
                      idx == IF drawn THEN r ELSE debate_state.current_agent_index
                  IN  /\ debate_state' = [debate_state EXCEPT
                             !.running = TRUE, !.current_agent_index = idx]
                      /\ gens' = Append(gens,
                             [pc |-> "while",
                              message_count |-> debate_state.message_count,
                              current_agent_index |-> idx,
                              lists |-> Len(heap),
                              full_response |-> "",
                              status_text |-> StatusStarted,
                              memory_size |-> MemorySizes,
                              memory_text |-> ""])
                      /\ initial_index' = IF initial_index = None THEN idx ELSE initial_index
              /\ last' = "step"
              /\ UNCHANGED heap

\* stop_debate
stop_debate ==
    /\ debate_state' = [debate_state EXCEPT !.running = FALSE]
    /\ last' = "step"
    /\ UNCHANGED <<heap, gens, initial_index>>

\* reset_debate without the line that clears 'current_agent_index'
reset_debate_keeps_index ==
    LET h == Append(heap, EmptyLists)
    IN  /\ debate_state' = [running |-> FALSE, message_count |-> 0,
                            current_agent_index |-> debate_state.current_agent_index]
        /\ heap' = CollectHeap(h, gens)
        /\ gens' = CollectGens(h, gens)
        /\ last' = "step"
        /\ initial_index' = None

\* reset_debate: new empty lists replace the old ones in debate_state; a
\* loop that captured the old lists keeps them
reset_debate ==
    LET h == Append(heap, EmptyLists)
    IN  /\ debate_state' = [running |-> FALSE, message_count |-> 0,
                            current_agent_index |-> None]
        /\ heap' = CollectHeap(h, gens)
        /\ gens' = CollectGens(h, gens)
        /\ last' = "step"
        /\ initial_index' = None

(* ---------------------- start_debate, the driving loop ----------------- *)

\* the invocation is over: it leaves, and its lists with it when nothing
\* else refers to them
Leave(l) ==
    LET gs == Without(gens, l)
    IN  /\ gens' = CollectGens(heap, gs)
        /\ heap' = CollectHeap(heap, gs)

\* the lines after the while loop: the write-back of the locals, the last
\* yield and the return
Finish(l, g, ds) ==
    /\ debate_state' = [ds EXCEPT !.running = FALSE,
                            !.current_agent_index = g.current_agent_index,
                            !.message_count = g.message_count]
    /\ Leave(l)

\* the lines after the while loop without the test of the limit
Epilogue_without_limit(l, g, ds) == Finish(l, g, ds)

\* if message_count >= 1000: the limit status is yielded first
Epilogue(l, g, ds) ==
    IF g.message_count >= MessageLimit
    THEN /\ debate_state' = [ds EXCEPT !.running = FALSE]
         /\ gens' = [gens EXCEPT ![l] = [g EXCEPT !.pc = "limit",
                                                  !.status_text = StatusLimit]]
         /\ UNCHANGED heap
    ELSE Finish(l, g, ds)

\* the model follows a list and a count for MaxTurns entries from zero and
\* for the last MaxTurns entries before the limit, and issues no generation
\* call beyond
Followed(n) == n < MaxTurns \/ (n >= MessageLimit - MaxTurns /\ n < MessageLimit)
CanGrow(g) ==
    /\ Followed(Len(heap[g.lists].conversation))
    /\ Followed(g.message_count)

\* the body of the while up to the call of generate_output: the memory of
\* the agent and the prompt are built and the request is sent; memory_text
\* is kept as long as the request is in flight, nothing reads it between the
\* return of generate_output and line 272, which empties it
Request(l, g, ds) ==
    /\ gens' = [gens EXCEPT ![l] = [g EXCEPT
           !.pc = "gen",
           !.memory_text = MemoryText(heap[g.lists].conversation,
                                      g.memory_size[g.current_agent_index + 1])]]
    /\ debate_state' = ds
    /\ UNCHANGED heap

\* the while without its test of debate_state['running']
WhileTest_ignores_stop(l, g, ds) ==
    IF g.message_count < MessageLimit
    THEN CanGrow(g) /\ Request(l, g, ds)
    ELSE Epilogue(l, g, ds)

\* while message_count < 1000 and debate_state['running'], read with the
\* locals g and the session record ds: the prompt is built and
\* generate_output is called, or the loop is left
WhileTest(l, g, ds) ==
    IF g.message_count < MessageLimit /\ ds.running
    THEN CanGrow(g) /\ Request(l, g, ds)
    ELSE Epilogue(l, g, ds)

\* after the yield of "Debate started.": the first test of the while
LoopHead(l) ==
    /\ gens[l].pc = "while"
    /\ WhileTest(l, gens[l], debate_state)
    /\ last' = "step"
    /\ UNCHANGED initial_index

\* generate_output returns a response: the empty entry is appended to both
\* lists and the local message_count is incremented
GenerateResponds(l) ==
    /\ gens[l].pc = "gen"
    /\ LET i == gens[l].current_agent_index
           r == gens[l].lists
       IN  /\ heap' = [heap EXCEPT
                  ![r].chat_history = Append(@, [role |-> Role(i),
                                                 content |-> AgentName(i) \o ": "]),
                  ![r].conversation = Append(@, [name |-> AgentName(i), content |-> ""])]
           /\ gens' = [gens EXCEPT ![l].pc = "stream", ![l].full_response = "",
                                   ![l].message_count = @ + 1,
                                   ![l].memory_text = ""]
    /\ last' = "step"
    /\ UNCHANGED <<debate_state, initial_index>>

Exceptions == {"IndexError", "JSONDecodeError", "RequestException"}

\* an exception leaves the generator at the raising line: nothing after it
\* has run
Raise(l, exception) ==
    /\ gens' = [gens EXCEPT ![l].pc = exception, ![l].memory_text = ""]
    /\ UNCHANGED <<debate_state, heap>>

\* the exception reaches the caller of the generator: the invocation is over
Propagate(l) ==
    /\ gens[l].pc \in Exceptions
    /\ Leave(l)
    /\ last' = "step"
    /\ UNCHANGED <<debate_state, initial_index>>

\* generate_output returns None: the sentinel is written into the last
\* entry of the lists, which raises IndexError when they are empty, and the
\* error status is yielded
GenerateFails(l) ==
    /\ gens[l].pc = "gen"
    /\ LET i == gens[l].current_agent_index
           r == gens[l].lists
           n == Len(heap[r].chat_history)
       IN  IF n = 0
           THEN Raise(l, "IndexError")
           ELSE /\ heap' = [heap EXCEPT
                       ![r].chat_history[n].content = AgentName(i) \o ": " \o ErrorSentinel,
                       ![r].conversation[n].content = ErrorSentinel]
                /\ gens' = [gens EXCEPT ![l].pc = "check",
                                        ![l].full_response = ErrorSentinel,
                                        ![l].status_text = StatusError(i),
                                        ![l].memory_text = ""]
                /\ UNCHANGED debate_state
    /\ last' = "step"
    /\ UNCHANGED initial_index

\* if not debate_state['running']: the stopped branch writes the locals
\* back, yields "Debate stopped." and breaks; otherwise "finished
\* responding." is yielded
CheckStopped(l, response) ==
    /\ IF ~debate_state.running
       THEN /\ debate_state' = [debate_state EXCEPT
                   !.current_agent_index = gens[l].current_agent_index,
                   !.message_count = gens[l].message_count]
            /\ gens' = [gens EXCEPT ![l].pc = "stopped", ![l].full_response = response,
                                    ![l].status_text = StatusStopped]
       ELSE /\ gens' = [gens EXCEPT ![l].pc = "toggle", ![l].full_response = response,
                           ![l].status_text = StatusFinished(gens[l].current_agent_index)]
            /\ UNCHANGED debate_state
    /\ UNCHANGED heap

\* the stream is over, or the loop over it was left by break
AfterStream(l) == CheckStopped(l, Strip(gens[l].full_response))

\* what one line of the stream can be
Records ==
    {[kind |-> "fragment", text |-> f] : f \in Fragments}
        \cup {[kind |-> k, text |-> ""] : k \in {"empty", "no_response", "malformed"}}

\* a record with a 'response' written into the entries as it comes, in place
\* of the text aggregated so far
Aggregate_last_fragment(l, text) ==
    LET i == gens[l].current_agent_index
        r == gens[l].lists
        n == Len(heap[r].chat_history)
    IN  /\ heap' = [heap EXCEPT
               ![r].chat_history[n].content = AgentName(i) \o ": " \o text,
               ![r].conversation[n].content = text]
        /\ gens' = [gens EXCEPT ![l].full_response = @ \o text,
                                ![l].status_text = StatusTyping(i)]
        /\ UNCHANGED debate_state

\* a record with a 'response': it is aggregated into the last entry of both
\* lists and the snapshot is yielded with the typing status
Aggregate(l, text) ==
    LET i == gens[l].current_agent_index
        r == gens[l].lists
        n == Len(heap[r].chat_history)
        full == gens[l].full_response \o text
    IN  /\ heap' = [heap EXCEPT
               ![r].chat_history[n].content = AgentName(i) \o ": " \o full,
               ![r].conversation[n].content = full]
        /\ gens' = [gens EXCEPT ![l].full_response = full,
                                ![l].status_text = StatusTyping(i)]
        /\ UNCHANGED debate_state

\* iter_lines yields a line: break when the debate is not running; an
\* empty line and a record without 'response' change nothing; json.loads
\* raises on a malformed record
StreamLine(l) ==
    /\ gens[l].pc = "stream"
    /\ \E rec \in Records :
        IF ~debate_state.running
        THEN AfterStream(l)
        ELSE CASE rec.kind = "fragment" ->
                    /\ Len(gens[l].full_response) < 2 * MaxFrags
                    /\ Aggregate(l, rec.text)
               [] rec.kind = "malformed" -> Raise(l, "JSONDecodeError")
               [] OTHER -> UNCHANGED <<debate_state, heap, gens>>
    /\ last' = "step"
    /\ UNCHANGED initial_index

\* iter_lines raises: the connection broke in the middle of the stream
StreamBreaks(l) ==
    /\ gens[l].pc = "stream"
    /\ Raise(l, "RequestException")
    /\ last' = "step"
    /\ UNCHANGED initial_index

\* iter_lines is exhausted
StreamEnds(l) ==
    /\ gens[l].pc = "stream"
    /\ AfterStream(l)
    /\ last' = "step"
    /\ UNCHANGED initial_index

\* after the yield of the error status
AfterError(l) ==
    /\ gens[l].pc = "check"
    /\ CheckStopped(l, gens[l].full_response)
    /\ last' = "step"
    /\ UNCHANGED initial_index

\* after the yield of "finished responding.": the other agent is next, the
\* locals are written back, and the while is tested again
Toggle(l) ==
    /\ gens[l].pc = "toggle"
    /\ LET g == [gens[l] EXCEPT !.current_agent_index = 1 - @]
           ds == [debate_state EXCEPT
                      !.current_agent_index = g.current_agent_index,
                      !.message_count = g.message_count]
       IN  WhileTest(l, g, ds)
    /\ last' = "step"
    /\ UNCHANGED initial_index

\* after the yield of "Debate stopped.": break
AfterBreak(l) ==
    /\ gens[l].pc = "stopped"
    /\ Epilogue(l, gens[l], debate_state)
    /\ last' = "step"
    /\ UNCHANGED initial_index

\* after the yield of the limit status
Return(l) ==
    /\ gens[l].pc = "limit"
    /\ Finish(l, gens[l], debate_state)
    /\ last' = "step"
    /\ UNCHANGED initial_index

Step(l) ==
    \/ LoopHead(l)
    \/ GenerateResponds(l)
    \/ GenerateFails(l)
    \/ StreamLine(l)
    \/ StreamBreaks(l)
    \/ StreamEnds(l)
    \/ AfterError(l)
    \/ Toggle(l)
    \/ AfterBreak(l)
    \/ Return(l)
    \/ Propagate(l)

(* ---------------------------- specifications --------------------------- *)

\* start_button.click(start_debate, ..., queue=True) under demo.queue(): the
\* queue runs one start_debate event at a time
QueueFree == gens = <<>>

\* Spec: the session from its creation, the start_debate events queued
Next ==
    \/ QueueFree /\ start_debate
    \/ stop_debate
    \/ reset_debate
    \/ \E l \in Loops : Step(l)

Spec == Init /\ [][Next]_vars

\* SpecOverlap: start_debate events run as they are called, up to NumLoops
\* at a time, on a session that is not reset
NextOverlap ==
    \/ start_debate
    \/ stop_debate
    \/ \E l \in Loops : Step(l)

SpecOverlap == Init /\ [][NextOverlap]_vars

\* SpecFair: Spec where an invocation that can go on does go on: the queue
\* resumes the generator after each yield, and a request to the generation
\* service ends, by a response or by a failure (timeout=300)
SpecFair == Spec /\ WF_vars(\E l \in Loops : Step(l))

\* the transcript of n turns of one fragment each, first speaker first
Transcript(first, n) ==
    [conversation |->
        [k \in 1..n |-> [name |-> AgentName((first + k - 1) % 2), content |-> "a "]],
     chat_history |->
        [k \in 1..n |-> [role |-> Role((first + k - 1) % 2),
                         content |-> AgentName((first + k - 1) % 2) \o ": " \o "a "]]]

\* SpecLimit: the session MaxTurns turns before the limit, after a run of
\* MessageLimit - MaxTurns turns that was stopped between two turns, the
\* start_debate events queued
InitLimit ==
    \E first \in {0, 1} :
        /\ debate_state = [running |-> FALSE,
                           message_count |-> MessageLimit - MaxTurns,
                           current_agent_index |-> (first + MessageLimit - MaxTurns) % 2]
        /\ heap = <<Transcript(first, MessageLimit - MaxTurns)>>
        /\ gens = <<>>
        /\ last = "init"
        /\ initial_index = first

SpecLimit == InitLimit /\ [][Next]_vars

\* SpecRun: the session from its creation when stop and reset are never
\* called, the invocation going on whenever it can
NextRun ==
    \/ QueueFree /\ start_debate
    \/ \E l \in Loops : Step(l)

SpecRun == Init /\ [][NextRun]_vars /\ WF_vars(\E l \in Loops : Step(l))

\* the conversations of at most MaxEntries entries, of either agent, with the
\* contents a stream of the model can leave
Contents == {"", "a ", "a a "}
Entries == {[name |-> AgentName(i), content |-> c] : i \in {0, 1}, c \in Contents}
Histories == UNION {[1..n -> Entries] : n \in 0..MaxEntries}
Budgets == -1..MaxBudget

\* the chat_history of a conversation: the entries as lines 304 and 322
\* write them
Display(conv) ==
    [k \in DOMAIN conv |->
        [role |-> IF conv[k].name = AgentName(0) THEN Role(0) ELSE Role(1),
         content |-> conv[k].name \o ": " \o conv[k].content]]

\* SpecMemory: start_debate, called with both memory sizes at b on a stopped
\* session that holds the conversation h, is at its yield of "Debate
\* started."; its loop then goes up to its first call of generate_output
InitMemory ==
    \E h \in Histories, b \in Budgets, i \in {0, 1} :
        /\ debate_state = [running |-> TRUE, message_count |-> Len(h),
                           current_agent_index |-> i]
        /\ heap = <<[conversation |-> h, chat_history |-> Display(h)]>>
        /\ gens = <<[pc |-> "while",
                     message_count |-> Len(h),
                     current_agent_index |-> i,
                     lists |-> 1,
                     full_response |-> "",
                     status_text |-> StatusStarted,
                     memory_size |-> <<b, b>>,
                     memory_text |-> ""]>>
        /\ last = "step"
        /\ initial_index = i

\* the first pass of the while, on a conversation of any length
FirstRequest(l) ==
    /\ gens[l].pc = "while"
    /\ gens[l].message_count < MessageLimit /\ debate_state.running
    /\ Request(l, gens[l], debate_state)
    /\ last' = "step"
    /\ UNCHANGED initial_index

NextMemory == \E l \in Loops : FirstRequest(l)

SpecMemory == InitMemory /\ [][NextMemory]_vars

TypeOK ==
    /\ debate_state.running \in BOOLEAN
    /\ debate_state.current_agent_index \in {None, 0, 1}
    /\ debate_state.message_count \in 0..MessageLimit
    /\ Len(gens) <= NumLoops
    /\ Len(heap) <= NumLoops + 1
    /\ \A l \in Loops : gens[l].pc \in
           {"while", "gen", "stream", "check", "toggle", "stopped", "limit"}
               \cup Exceptions

(* -------------------------------- claims ------------------------------- *)

\* the fields of the session record as reset_debate leaves them
Cleared ==
    /\ conversation = <<>>
    /\ chat_history = <<>>
    /\ debate_state.message_count = 0
    /\ debate_state.current_agent_index = None

\* the invocation is suspended at a yield
AtYield(l) ==
    \/ gens[l].pc \in {"while", "check", "toggle", "stopped", "limit"}
    \/ /\ gens[l].pc = "stream"
       /\ gens[l].status_text = StatusTyping(gens[l].current_agent_index)

\* the step ends a turn of invocation l: the yield of "finished responding."
\* is passed and the locals are written back, or the stopped branch is taken
TurnEnded(l) ==
    \/ Toggle(l)
    \/ /\ gens[l].pc \in {"stream", "check"}
       /\ Len(gens') >= l
       /\ gens'[l].pc = "stopped"

\* C1: between two resets the stored current_agent_index equals
\* initial_index XOR (message_count mod 2), initial_index being the index
\* drawn at the first start.
C1_Alternation ==
    (debate_state.current_agent_index # None /\ initial_index # None)
        => debate_state.current_agent_index
               = (initial_index + debate_state.message_count) % 2

\* C2: whenever every invocation is suspended at a yield (and so after every
\* stop and reset), len(conversation) = len(chat_history) = message_count
\* on the fields of debate_state.
C2_Lengths ==
    (\A l \in Loops : AtYield(l))
        => /\ Len(conversation) = Len(chat_history)
           /\ Len(conversation) = debate_state.message_count

\* C3: every turn that ends (normally, cancelled, or by a transport error)
\* raises the message_count of debate_state by exactly 1, and no step but a
\* reset lowers it.
C3_CountMonotonic ==
    [][/\ \A l \in Loops :
              TurnEnded(l) => debate_state'.message_count
                                  = debate_state.message_count + 1
       /\ reset_debate
              \/ debate_state'.message_count >= debate_state.message_count]_vars

\* C4: a reset, from whatever state, leaves conversation and chat_history
\* empty, message_count 0, current_agent_index unset and running false.
C4_ResetCompleteness ==
    [][reset_debate => Cleared' /\ ~debate_state'.running]_vars

\* a reset has taken place in the middle of a stream: the record is cleared
\* and the loop still holds the lists of before, with its text in them
C4_Witness ==
    /\ Cleared
    /\ ~debate_state.running
    /\ \E l \in Loops :
           /\ gens[l].pc = "stream"
           /\ gens[l].lists # Len(heap)
           /\ gens[l].full_response # ""

\* C5: once reset has cleared the record, no step but a call of start makes
\* it other than cleared: a loop that was running writes nothing into it.
C5_NoStaleWrite ==
    [][(Cleared /\ ~start_debate) => Cleared']_vars

\* C6: a call of start while running is true changes no field of the session
\* record and neither starts a loop nor moves one: no generation call comes
\* of it.
C6_IdempotentStart ==
    [][(debate_state.running /\ start_debate)
           => UNCHANGED <<debate_state, heap, gens>>]_vars

\* a call of start has just been ignored while a generation call is in flight
C6_Witness ==
    /\ last = "start_ignored"
    /\ debate_state.running
    /\ \E l \in Loops : InFlight(l)

C8_HardCap ==
    /\ [](/\ debate_state.message_count <= MessageLimit
          /\ \A l \in Loops :
                 /\ gens[l].message_count <= MessageLimit
                 /\ gens[l].pc = "gen" => gens[l].message_count < MessageLimit
                 /\ gens[l].pc = "limit" =>
                        /\ gens[l].status_text = StatusLimit
                        /\ gens[l].message_count = MessageLimit
                        /\ ~debate_state.running)
    /\ [][\A l \in Loops :
              /\ (/\ gens[l].message_count >= MessageLimit
                  /\ gens[l].pc \in {"while", "toggle", "stopped"}
                  /\ gens' # gens)
                     => /\ Len(gens') >= l
                        /\ gens'[l].pc = "limit"
                        /\ gens'[l].status_text = StatusLimit
                        /\ ~debate_state'.running
              /\ (gens[l].pc = "limit" /\ gens' # gens)
                     => /\ gens' = <<>>
                        /\ ~debate_state'.running
                        /\ debate_state'.message_count = MessageLimit]_vars

\* the 1000th turn has ended and the limit status is being yielded
C8_Witness ==
    \E l \in Loops :
        /\ gens[l].pc = "limit"
        /\ debate_state.message_count = MessageLimit
        /\ Len(conversation) = MessageLimit

\* C9: when the generation call of a turn fails, a new entry of the current
\* agent with the sentinel as content is appended, the count of the loop is
\* incremented, and the turn goes on to its end as any other.
C9_TransportError ==
    [][\A l \in Loops :
           /\ GenerateFails(l) =>
                  /\ gens'[l].pc = "check"
                  /\ heap'[gens[l].lists].conversation
                         = Append(heap[gens[l].lists].conversation,
                                  [name |-> AgentName(gens[l].current_agent_index),
                                   content |-> ErrorSentinel])
                  /\ gens'[l].message_count = gens[l].message_count + 1
           /\ (AfterError(l) /\ debate_state.running) => gens'[l].pc = "toggle"]_vars

\* C10: no invocation ends by an exception: a failed call, a failure in the
\* stream and a malformed record are all handled inside the loop.
C10_NoUncaught ==
    \A l \in Loops : gens[l].pc \notin Exceptions

\* the conversation list that invocation l holds is after the step what it
\* was before it
KeepsTranscript(l) ==
    IF Len(gens') >= l
    THEN heap'[gens'[l].lists].conversation = heap[gens[l].lists].conversation
    ELSE gens[l].lists = Len(heap) => conversation' = conversation

\* C11: after a stop, with no start called again: no generation call is
\* begun while running is false; the loop exits in the end and running is
\* false when it does; and the entry of the turn that was streaming keeps
\* the content aggregated so far, neither removed nor replaced by the
\* sentinel.
C11_CooperativeStop ==
    /\ [][\A l \in Loops :
              /\ (Len(gens') >= l /\ gens'[l].pc = "gen" /\ gens[l].pc # "gen")
                     => debate_state.running
              /\ (~debate_state.running /\ gens[l].pc \in {"stream", "stopped"})
                     => /\ KeepsTranscript(l)
                        /\ Len(gens') >= l => gens'[l].pc \notin {"gen", "check"}
              /\ (~debate_state.running /\ gens' = <<>>) => ~debate_state'.running]_vars
    /\ ((~debate_state.running /\ gens # <<>>) ~> (gens = <<>>))

\* a stream was stopped after its first fragment: "Debate stopped." is being
\* yielded and the entry holds the fragment
C11_Witness ==
    /\ ~debate_state.running
    /\ \E l \in Loops :
           /\ gens[l].pc = "stopped"
           /\ gens[l].status_text = StatusStopped
           /\ gens[l].lists = Len(heap)
           /\ conversation # <<>>
           /\ conversation[Len(conversation)].content = "a "

\* C12: a start called while running is false whose connectivity probe fails
\* changes no field of the session record (running stays false, no index is
\* drawn, lists and count as they were) and starts no loop, so that no
\* generation call comes of it.
C12_FailedProbe ==
    [][(~debate_state.running /\ start_debate /\ last' = "no_connection")
           => /\ UNCHANGED <<debate_state, heap, gens, initial_index>>
              /\ ~debate_state'.running]_vars

\* the probe of the first start of a session has just failed
C12_Witness ==
    /\ last = "no_connection"
    /\ ~debate_state.running
    /\ debate_state.current_agent_index = None
    /\ gens = <<>>

\* the formatted entries of the last k entries of a history: their total
\* length, and their concatenation, oldest first
RECURSIVE SuffixLength(_, _)
SuffixLength(h, k) ==
    IF k = 0 THEN 0
    ELSE Len(h[Len(h) - k + 1].name) + 2 + Len(h[Len(h) - k + 1].content) + 1
             + SuffixLength(h, k - 1)
RECURSIVE SuffixText(_, _)
SuffixText(h, k) ==
    IF k = 0 THEN ""
    ELSE h[Len(h) - k + 1].name \o ": " \o h[Len(h) - k + 1].content \o "\n"
             \o SuffixText(h, k - 1)

\* the text of the longest suffix of h that fits the budget, empty when none
\* does
Window(h, budget) ==
    LET fits == {k \in 0..Len(h) : SuffixLength(h, k) <= budget}
    IN  IF fits = {} THEN ""
        ELSE SuffixText(h, CHOOSE k \in fits : \A j \in fits : j <= k)

\* C13: the memory text sent with a request is the concatenation, oldest
\* first, of the formatted entries of the longest suffix of the history whose
\* total formatted length is at most the budget: it is no longer than a
\* budget that is not negative, holds whole entries only, and is empty when
\* the newest entry alone exceeds the budget and when the budget is <= 0.
C13_MemoryWindow ==
    \A l \in Loops :
        gens[l].pc = "gen" =>
            LET h == heap[gens[l].lists].conversation
                budget == gens[l].memory_size[gens[l].current_agent_index + 1]
                memory_text == gens[l].memory_text
            IN  /\ memory_text = Window(h, budget)
                /\ budget >= 0 => Len(memory_text) <= budget
                /\ budget <= 0 => memory_text = ""
                /\ (h # <<>> /\ SuffixLength(h, 1) > budget) => memory_text = ""

\* a request whose memory holds the newest entries of a history of
\* MaxEntries entries but not the oldest, the budget not being used up
C13_Witness ==
    \E l \in Loops :
        /\ gens[l].pc = "gen"
        /\ Len(heap[gens[l].lists].conversation) = MaxEntries
        /\ gens[l].memory_text # ""
        /\ Len(gens[l].memory_text)
               < gens[l].memory_size[gens[l].current_agent_index + 1]
        /\ Len(gens[l].memory_text)
               < SuffixLength(heap[gens[l].lists].conversation, MaxEntries - 1)

\* the last entry of debate_state's conversation belongs to a turn that has
\* not ended: a loop is reading the stream of its response
TurnOpen == \E l \in Loops : gens[l].lists = Len(heap) /\ gens[l].pc = "stream"

\* C14: between two resets the conversation only grows at its end, and the
\* name and content of the entry of a turn that has ended are never changed
\* by a later turn, whether it succeeds, is cancelled or fails.
C14_AppendOnly ==
    [][~reset_debate =>
           /\ Len(conversation') >= Len(conversation)
           /\ \A k \in 1..Len(conversation) :
                  (k < Len(conversation) \/ ~TurnOpen)
                      => conversation'[k] = conversation[k]]_vars

\* C15: current_agent_index is unset exactly when message_count is 0 and no
\* start has passed the connectivity check since the last reset, or since the
\* session was created.
C15_IndexUnset ==
    (debate_state.current_agent_index = None)
        <=> (debate_state.message_count = 0 /\ initial_index = None)

\* the last entry of the conversation list that invocation l holds
LastEntry(h, g) == h[g.lists].conversation[Len(h[g.lists].conversation)]

\* C16: a turn begins with an entry of empty content appended to the
\* conversation before any fragment; each fragment received makes the content
\* of the last entry the concatenation of the fragments of the turn so far,
\* which is the content the turn wrote at its fragment before, extended by
\* the fragment.
C16_Aggregation ==
    [][\A l \in Loops :
           /\ GenerateResponds(l) =>
                  /\ Len(heap'[gens[l].lists].conversation)
                         = Len(heap[gens[l].lists].conversation) + 1
                  /\ LastEntry(heap', gens'[l]).content = ""
                  /\ gens'[l].full_response = ""
           /\ (StreamLine(l) /\ gens'[l].pc = "stream" /\ gens'[l] # gens[l]) =>
                  \E f \in Fragments :
                      /\ gens'[l].full_response = gens[l].full_response \o f
                      /\ LastEntry(heap', gens'[l]).content = gens'[l].full_response
                      /\ Len(heap'[gens[l].lists].conversation)
                             = Len(heap[gens[l].lists].conversation)]_vars

\* the second fragment of a turn has been received
C16_Witness ==
    \E l \in Loops :
        /\ gens[l].pc = "stream"
        /\ gens[l].full_response = "a a "
        /\ LastEntry(heap, gens[l]).content = "a a "

\* C17: chat_history is what conversation gives entry by entry: the content
\* of entry k is the name, ": " and the content of entry k of conversation,
\* and its role is the role of the agent slot of that name.
C17_DisplayDerivation ==
    /\ Len(chat_history) = Len(conversation)
    /\ \A k \in 1..Len(conversation) :
           /\ chat_history[k].content
                  = conversation[k].name \o ": " \o conversation[k].content
           /\ chat_history[k].role
                  = (IF conversation[k].name = AgentName(0) THEN Role(0) ELSE Role(1))

\* C18: the last status of a turn tells how it ended: "finished responding."
\* after a stream read to its end while running, "Debate stopped." after a
\* cancellation, and after a failed generation call "encountered an error."
\* (or "Debate stopped."), never "finished responding.".
C18_StatusByOutcome ==
    [][\A l \in Loops :
           /\ ((StreamEnds(l) \/ StreamLine(l)) /\ gens'[l].pc \in {"toggle", "stopped"})
                  => gens'[l].status_text
                         = (IF debate_state.running
                            THEN StatusFinished(gens[l].current_agent_index)
                            ELSE StatusStopped)
           /\ AfterError(l)
                  => gens'[l].status_text
                         \in {StatusError(gens[l].current_agent_index), StatusStopped}]_vars

\* the loop is about to issue a generation call that the model does not
\* follow
AtBound ==
    \E l \in Loops :
        /\ gens[l].pc \in {"while", "toggle"}
        /\ debate_state.running
        /\ gens[l].message_count < MessageLimit
        /\ ~CanGrow(gens[l])

\* C19: when every generation call ends and the loop is scheduled fairly, a
\* run that was started exits in the end, stop and reset never being called,
\* however many of its generation calls fail: the part of the claim that
\* every run has an end, which the bound of 1000 calls and the exit with
\* running false both need.
C19_BoundedRun ==
    (gens # <<>>) ~> (gens = <<>> \/ AtBound)

\* C20: between two resets no two consecutive entries of the conversation
\* have the same speaker name, whatever the starts, stops, restarts and turn
\* outcomes.
C20_SpeakerAlternation ==
    \A k \in 1..(Len(conversation) - 1) :
        conversation[k].name # conversation[k + 1].name

====
